---- MODULE Spec2Model ----
(***************************************************************************)
(* The query cache layer of zenchat-ai (src/src/shared/lib/queryClient.ts): *)
(* the in-memory query store of one page, the single localStorage slot     *)
(* "zenchat_query_cache", persistQueryCache / hydrateQueryCache and the    *)
(* triggers createQueryClient registers.  One action is one synchronous    *)
(* handler of the page's single thread.                                    *)
(*   Spec, SpecFresh  persistence and hydration over page loads            *)
(*   SpecRetry        the retry policy of one fetch or mutation            *)
(*   SpecQuery        prefetchQuery and invalidateQueries on the cache     *)
(*   SpecKeys         the key builders of queryKeys                        *)
(***************************************************************************)
EXTENDS Integers, Sequences, FiniteSets, TLC

VARIABLES
    store,       \* the QueryCache of the page's client: query key -> query state
    slot,        \* content of localStorage["zenchat_query_cache"]
    now,         \* Date.now(), in ms
    pc,          \* "unloaded" (no page; store is what the last page left behind)
                 \* | "running" | "failed" (createQueryClient threw)
    hydrations,  \* hydrateQueryCache calls made on the current client
    last,        \* the handler that produced the current state and how it ended
    cache,       \* the same QueryCache seen with the fields the fetch logic reads:
                 \* isInvalidated and fetchStatus next to data and dataUpdatedAt
    retryer,     \* the retryer of the fetch or mutation in flight, with its callers
    built        \* the query keys the last two calls of queryKeys builders returned

\* what the handlers of persistence see
pageVars == <<store, slot, now, pc, hydrations, last>>
\* what only the fetch logic and the key builders see
queryVars == <<cache, retryer, built>>

vars == <<store, slot, now, pc, hydrations, last, cache, retryer, built>>

(* ------------------------------ bounds -------------------------------- *)

\* most entries a store holds in the model
MaxEntries == 2
\* the clock takes the values ClockAt(1) .. ClockAt(MaxTicks)
MaxTicks == 3
\* callers that ask for the same key at the same time
MaxRequesters == 2
\* retryDelay is tabulated for attempt indexes 0 .. MaxAttemptIndex
MaxAttemptIndex == 6
\* distinct filter objects with the same content that callers hand to queryKeys
MaxRefs == 2

HalfDay == 12 * 60 * 60 * 1000

\* the moments at which something happens: 12 h, 24 h, 48 h, ... after the epoch, so
\* that two of them are less than, exactly, or more than 24 h apart
ClockAt(i) == HalfDay * 2 ^ (i - 1)

(* ------------------------- program constants -------------------------- *)

CACHE_SCHEMA_VERSION == 2

EXCLUDED_QUERY_KEYS == {"zip-tasks", "posts", "accounts", "post-images"}

maxAge == 24 * 60 * 60 * 1000

SizeCap == 2 * 1024 * 1024

(* ------------------------------- keys --------------------------------- *)

\* the keys callers ask for, in the order getAll() lists their queries
KeyOrder ==
    << <<"stats", "overview">>, <<"tasks", "list">>,
       <<"posts", "detail", "p1">> >>

QueryKeys == {KeyOrder[i] : i \in 1..Len(KeyOrder)}

(* ------------------------------- data --------------------------------- *)
(* Payloads are opaque to the cache; what the code looks at is JavaScript  *)
(* truthiness and what JSON.stringify / JSON.parse do to the value.        *)
(*   "undefined"  no data                                                  *)
(*   "zero"       the number 0 (falsy, valid JSON)                         *)
(*   "ok"         a small plain object                                     *)
(*   "date"       a Date object: serialized as its ISO string              *)
(*   "isoString"  the string a Date comes back as                          *)
(*   "big"        a string of 2 MiB                                        *)
(*   "cyclic"     an object that refers to itself: JSON.stringify throws   *)

\* what the fetch function of a key can resolve to
FetchResults(k) ==
    CASE k = <<"stats", "overview">> -> {"zero", "ok", "date"}
      [] k = <<"tasks", "list">>     -> {"ok", "big", "cyclic"}
      [] OTHER                       -> {"ok"}

\* !value
Falsy(d) == d \in {"undefined", "zero"}

\* JSON.stringify(value) throws
Unserializable(d) == d = "cyclic"

\* JSON.parse(JSON.stringify(value))
JsonValue(d) == IF d = "date" THEN "isoString" ELSE d

\* JSON.stringify(value).length
JsonLength(d) ==
    CASE d = "zero"      -> 1
      [] d = "ok"        -> 16
      [] d = "date"      -> 26
      [] d = "isoString" -> 26
      [] d = "big"       -> 2 * 1024 * 1024 + 2
      [] OTHER           -> 0

(* ------------------------------ store --------------------------------- *)

\* a QueryCache without queries
EmptyStore == [k \in {} |-> {}]

HasKey(st, k) == k \in DOMAIN st

\* the store with the query of key k in state e
Put(st, k, e) == [x \in (DOMAIN st) \cup {k} |-> IF x = k THEN e ELSE st[x]]

\* cache.getAll()
getAll(st) ==
    LET present == SelectSeq(KeyOrder, LAMBDA k : k \in DOMAIN st)
    IN  [i \in 1..Len(present) |-> st[present[i]]]

\* state of a query built for a key that has no data yet
PendingEntry(k) ==
    [queryKey |-> k, status |-> "pending", data |-> "undefined", dataUpdatedAt |-> 0]

SuccessEntry(k, d, t) ==
    [queryKey |-> k, status |-> "success", data |-> d, dataUpdatedAt |-> t]

\* queryClient.setQueryData(queryKey, data, { updatedAt })
setQueryData(st, k, d, t) ==
    IF d = "undefined" THEN st
    ELSE Put(st, k, SuccessEntry(k, d, t))

(* ------------------------------- slot --------------------------------- *)

Absent == [kind |-> "absent", version |-> 0, timestamp |-> 0, queries |-> <<>>]

\* the empty string
EmptyString == [kind |-> "empty", version |-> 0, timestamp |-> 0, queries |-> <<>>]

\* a non-empty string that is not JSON
Garbage == [kind |-> "garbage", version |-> 0, timestamp |-> 0, queries |-> <<>>]

\* {"version": v, "timestamp": t, "queries": [...]}
Snapshot(v, t, qs) == [kind |-> "object", version |-> v, timestamp |-> t, queries |-> qs]

\* {"version": v, "timestamp": t}: queries is undefined
NoQueries(v, t) == [kind |-> "noQueries", version |-> v, timestamp |-> t, queries |-> <<>>]

\* a null element of the queries array
NullElement == [queryKey |-> <<>>, data |-> "null", dataUpdatedAt |-> 0]

Persisted(k, d, t) == [queryKey |-> k, data |-> d, dataUpdatedAt |-> t]

\* what the slot can hold when the page is first loaded
InitialSlots ==
    { Absent, EmptyString, Garbage,
      Snapshot(1, HalfDay, <<Persisted(<<"posts", "detail", "p1">>, "ok", HalfDay)>>),
      NoQueries(CACHE_SCHEMA_VERSION, HalfDay),
      Snapshot(CACHE_SCHEMA_VERSION, HalfDay,
               <<Persisted(<<"stats", "overview">>, "ok", HalfDay), NullElement>>) }

\* how the storage layer behaves during one handler
\*   "none"    works
\*   "quota"   setItem throws DOMException QuotaExceededError
\*   "denied"  every access to localStorage throws (SecurityError, or no
\*             localStorage at all outside a browser)
StorageFaults == {"none", "quota", "denied"}

(* ------------------------- persistQueryCache -------------------------- *)

\* the filter without its look at the exclusion list
IsPersistableNoExclusion(query) ==
    IF query.status # "success" \/ Falsy(query.data) THEN FALSE ELSE TRUE

\* the filter callback: only successful queries with data, large categories left out
IsPersistable(query) ==
    IF query.status # "success" \/ Falsy(query.data) THEN FALSE
    ELSE IF query.queryKey[1] \in EXCLUDED_QUERY_KEYS THEN FALSE
    ELSE TRUE

\* the map callback
ToPersisted(query) == Persisted(query.queryKey, query.data, query.dataUpdatedAt)

\* queries.filter(...).map(...)
persistableQueries(st) ==
    LET kept == SelectSeq(getAll(st), IsPersistable)
    IN  [i \in 1..Len(kept) |-> ToPersisted(kept[i])]

RECURSIVE QueriesLength(_)
QueriesLength(qs) ==
    IF qs = <<>> THEN 0
    ELSE 48 + 2 * Len(Head(qs).queryKey) + JsonLength(Head(qs).data) + 13
         + QueriesLength(Tail(qs))

\* JSON.stringify({version, timestamp, queries}).length
SerializedLength(qs) == 50 + QueriesLength(qs)

\* what JSON.parse gives back for the serialized queries
ParsedQueries(qs) ==
    [i \in 1..Len(qs) |->
        Persisted(qs[i].queryKey, JsonValue(qs[i].data), qs[i].dataUpdatedAt)]

\* the size check against 20 MiB
OversizeWrongCap(qs) == SerializedLength(qs) > 20 * 1024 * 1024

\* the size check: the snapshot is too large to be written
Oversize(qs) == SerializedLength(qs) > SizeCap

\* the try block: the slot it leaves, the way it ended, the error it threw
PersistTry(st, sl, t, fault) ==
    LET pq == persistableQueries(st)
    IN  IF Len(pq) = 0
        THEN [slot |-> sl, path |-> "empty", error |-> "none"]
        ELSE IF \E i \in 1..Len(pq) : Unserializable(pq[i].data)
        THEN [slot |-> sl, path |-> "serializeError", error |-> "TypeError"]
        ELSE IF Oversize(pq)
        THEN [slot |-> sl, path |-> "oversize", error |-> "none"]
        ELSE IF fault = "quota"
        THEN [slot |-> sl, path |-> "quota", error |-> "QuotaExceededError"]
        ELSE IF fault = "denied"
        THEN [slot |-> sl, path |-> "denied", error |-> "SecurityError"]
        ELSE [slot |-> Snapshot(CACHE_SCHEMA_VERSION, t, ParsedQueries(pq)),
              path |-> "written", error |-> "none"]

\* a catch block that only swallows the error
PersistCatchKeeps(sl, error) == sl

\* a catch block that clears the slot whatever the error
PersistCatchClearsAlways(sl, error) == Absent

\* the catch block: the slot it leaves
PersistCatch(sl, error) ==
    IF error = "QuotaExceededError" THEN Absent ELSE sl

persistQueryCache(st, sl, t, fault) ==
    LET r == PersistTry(st, sl, t, fault)
    IN  [slot  |-> IF r.error = "none" THEN r.slot ELSE PersistCatch(r.slot, r.error),
         path  |-> r.path,
         threw |-> FALSE]

(* ------------------------- hydrateQueryCache -------------------------- *)

\* the restore loop: the store it leaves and whether destructuring an element threw
RECURSIVE RestoreQueries(_, _)
RestoreQueries(st, qs) ==
    IF qs = <<>> THEN [store |-> st, error |-> "none"]
    ELSE IF Head(qs) = NullElement THEN [store |-> st, error |-> "TypeError"]
    ELSE RestoreQueries(
             setQueryData(st, Head(qs).queryKey, Head(qs).data, Head(qs).dataUpdatedAt),
             Tail(qs))

\* a version check that only rejects snapshots of a newer schema
VersionMismatchNewerOnly(sl) == sl.version > CACHE_SCHEMA_VERSION

\* the version check
VersionMismatch(sl) == sl.version # CACHE_SCHEMA_VERSION

\* an age check with a maximum of a week
ExpiredAfterWeek(sl, t) == t - sl.timestamp > 7 * maxAge

\* the age check with its operands swapped
ExpiredSwapped(sl, t) == sl.timestamp - t > maxAge

\* the age check
Expired(sl, t) == t - sl.timestamp > maxAge

\* the try block
HydrateTry(st, sl, t, fault) ==
    IF fault = "denied"
    THEN [store |-> st, slot |-> sl, path |-> "denied", error |-> "SecurityError"]
    ELSE IF sl.kind \in {"absent", "empty"}
    THEN [store |-> st, slot |-> sl, path |-> "absent", error |-> "none"]
    ELSE IF sl.kind = "garbage"
    THEN [store |-> st, slot |-> sl, path |-> "parseError", error |-> "SyntaxError"]
    ELSE IF VersionMismatch(sl)
    THEN [store |-> st, slot |-> Absent, path |-> "version", error |-> "none"]
    ELSE IF Expired(sl, t)
    THEN [store |-> st, slot |-> Absent, path |-> "expired", error |-> "none"]
    ELSE IF sl.kind = "noQueries"
    THEN [store |-> st, slot |-> sl, path |-> "malformed", error |-> "TypeError"]
    ELSE LET r == RestoreQueries(st, sl.queries)
         IN  [store |-> r.store, slot |-> sl,
              path  |-> IF r.error = "none" THEN "restored" ELSE "malformed",
              error |-> r.error]

\* a catch block that only logs
HydrateCatchKeeps(sl, fault) == [slot |-> sl, threw |-> FALSE]

\* the catch block: removeItem is called unguarded
HydrateCatch(sl, fault) ==
    IF fault = "denied" THEN [slot |-> sl, threw |-> TRUE]
    ELSE [slot |-> Absent, threw |-> FALSE]

hydrateQueryCache(st, sl, t, fault) ==
    LET r == HydrateTry(st, sl, t, fault)
        c == HydrateCatch(r.slot, fault)
    IN  IF r.error = "none"
        THEN [store |-> r.store, slot |-> r.slot, path |-> r.path, threw |-> FALSE]
        ELSE [store |-> r.store, slot |-> c.slot, path |-> r.path, threw |-> c.threw]

(* ------------------------------ actions ------------------------------- *)

Outcome(op, r) == [op |-> op, path |-> r.path, threw |-> r.threw]

Other(op) == [op |-> "other", path |-> "none", threw |-> FALSE]

\* callers of the fetch logic
Requesters == 1..MaxRequesters

\* no fetch and no mutation has been started
IdleRetryer ==
    [kind |-> "none", status |-> "idle", failureCount |-> 0, calls |-> 0,
     error |-> "none", delay |-> 0, waiters |-> {},
     seen |-> [r \in Requesters |-> "none"]]

\* no key builder has been called
NoKeys == <<>>

QueryIdle ==
    /\ cache = EmptyStore
    /\ retryer = IdleRetryer
    /\ built = NoKeys

Init ==
    /\ store = EmptyStore
    /\ slot \in InitialSlots
    /\ now = HalfDay
    /\ pc = "unloaded"
    /\ hydrations = 0
    /\ last = Other("init")
    /\ QueryIdle

\* a client whose interval and listeners run without the cache having been restored
createQueryClientNoHydrate(fault) ==
    /\ store' = EmptyStore
    /\ hydrations' = 0
    /\ pc' = "running"
    /\ last' = Other("create")
    /\ UNCHANGED <<slot, now>>

\* the page loads and the module builds its client: new QueryClient, one call of
\* hydrateQueryCache, then the interval and the two listeners are registered and
\* the client is returned; nothing is registered or returned when hydration throws
createQueryClient(fault) ==
    LET h == hydrateQueryCache(EmptyStore, slot, now, fault)
    IN  /\ store' = h.store
        /\ slot' = h.slot
        /\ hydrations' = 0 + 1
        /\ pc' = IF h.threw THEN "failed" ELSE "running"
        /\ last' = Outcome("hydrate", h)
        /\ UNCHANGED now

CreateQueryClient ==
    /\ UNCHANGED queryVars
    /\ pc \in {"unloaded", "failed"}
    /\ \E fault \in StorageFaults : createQueryClient(fault)

\* a persistence trigger runs persistQueryCache on the client
PersistTrigger(fault, nextPc) ==
    LET p == persistQueryCache(store, slot, now, fault)
    IN  /\ slot' = p.slot
        /\ last' = Outcome("persist", p)
        /\ pc' = nextPc
        /\ UNCHANGED <<store, now, hydrations>>

\* setInterval callback, every 30 s
IntervalTick ==
    /\ UNCHANGED queryVars
    /\ pc = "running"
    /\ \E fault \in StorageFaults : PersistTrigger(fault, "running")

\* beforeunload listener; the page is gone afterwards
BeforeUnload ==
    /\ UNCHANGED queryVars
    /\ pc = "running"
    /\ \E fault \in StorageFaults : PersistTrigger(fault, "unloaded")

\* visibilitychange listener
VisibilityChange ==
    /\ UNCHANGED queryVars
    /\ pc = "running"
    /\ \E visibilityState \in {"hidden", "visible"}, fault \in StorageFaults :
          IF visibilityState = "hidden"
          THEN PersistTrigger(fault, "running")
          ELSE /\ last' = Other("visible")
               /\ UNCHANGED <<store, slot, now, pc, hydrations>>

\* clearAllCache
ClearAllCache ==
    /\ UNCHANGED queryVars
    /\ pc = "running"
    /\ \E fault \in StorageFaults :
          /\ store' = EmptyStore
          /\ slot' = IF fault = "denied" THEN slot ELSE Absent
          /\ last' = [op |-> "clear", path |-> "none", threw |-> fault = "denied"]
          /\ UNCHANGED <<now, pc, hydrations>>

\* a caller asks for a key that has no entry: the query is built and its fetch starts
Fetch(k) ==
    /\ UNCHANGED queryVars
    /\ pc = "running"
    /\ ~HasKey(store, k)
    /\ Cardinality(DOMAIN store) < MaxEntries
    /\ store' = Put(store, k, PendingEntry(k))
    /\ last' = Other("fetch")
    /\ UNCHANGED <<slot, now, pc, hydrations>>

\* the fetch of a key resolves
FetchSuccess(k) ==
    /\ UNCHANGED queryVars
    /\ pc = "running"
    /\ HasKey(store, k)
    /\ \E d \in FetchResults(k) :
          store' = Put(store, k, SuccessEntry(k, d, now))
    /\ last' = Other("fetchSuccess")
    /\ UNCHANGED <<slot, now, pc, hydrations>>

\* the fetch of a key fails for good: data fetched earlier is kept
FetchError(k) ==
    /\ UNCHANGED queryVars
    /\ pc = "running"
    /\ HasKey(store, k)
    /\ store[k].status # "error"
    /\ store' = [store EXCEPT ![k].status = "error"]
    /\ last' = Other("fetchError")
    /\ UNCHANGED <<slot, now, pc, hydrations>>

\* time passes
Advance ==
    /\ UNCHANGED queryVars
    /\ \E i \in 1..(MaxTicks - 1) : now = ClockAt(i) /\ now' = ClockAt(i + 1)
    /\ UNCHANGED <<store, slot, pc, hydrations, last>>

Next ==
    \/ CreateQueryClient
    \/ IntervalTick
    \/ BeforeUnload
    \/ VisibilityChange
    \/ ClearAllCache
    \/ \E k \in QueryKeys : Fetch(k)
    \/ \E k \in QueryKeys : FetchSuccess(k)
    \/ \E k \in QueryKeys : FetchError(k)
    \/ Advance

Spec == Init /\ [][Next]_vars

\* the same program on a browser profile whose slot has never been written
InitFresh == Init /\ slot = Absent

SpecFresh == InitFresh /\ [][Next]_vars

(* ------------------------------ steps --------------------------------- *)

\* the step is a run of persistQueryCache
PersistStep == last'.op = "persist" /\ now' = now /\ pc = "running"

\* the step is a run of createQueryClient, hence of hydrateQueryCache on a new store
HydrateStep == last'.op = "hydrate" /\ now' = now /\ pc # "running"

\* the slot holds {version, timestamp, ...}
HoldsObject(sl) == sl.kind \in {"object", "noQueries"}

\* the queries persistQueryCache selects from the store before the step
Selected == persistableQueries(store)

(* ------------------------------- C1 ----------------------------------- *)

\* an entry the claim says is restored: Success, leading key segment not excluded
Eligible(e) == e.status = "success" /\ e.queryKey[1] \notin EXCLUDED_QUERY_KEYS

\* JSON represents the value exactly
JsonExact(d) == d \in {"zero", "ok", "isoString", "big"}

\* C1: when the page's last persistQueryCache wrote its snapshot (beforeunload) and
\* the next page hydrates it less than 24 hours later, every Success entry of the
\* old store whose leading key segment is not excluded is in the new store with the
\* same data and the same dataUpdatedAt.  Stated for the data JSON represents
\* exactly, so that only the selection of entries can break it.
C1_RoundTrip ==
    [][ ( /\ HydrateStep
          /\ pc = "unloaded"
          /\ last.op = "persist" /\ last.path = "written"
          /\ now - slot.timestamp < maxAge
          /\ last'.path = "restored" )
        => \A k \in DOMAIN store :
              (Eligible(store[k]) /\ JsonExact(store[k].data))
              => /\ k \in DOMAIN store'
                 /\ store'[k].data = store[k].data
                 /\ store'[k].dataUpdatedAt = store[k].dataUpdatedAt ]_vars

(* ------------------------------- C2 ----------------------------------- *)

\* C2: hydrating a slot that holds a snapshot of another schema version restores
\* nothing (the new store stays empty) and, the storage being accessible, leaves
\* the slot absent.
C2_VersionMismatchDiscarded ==
    [][ ( /\ HydrateStep
          /\ HoldsObject(slot)
          /\ slot.version # CACHE_SCHEMA_VERSION )
        => /\ store' = EmptyStore
           /\ last'.path # "denied" => slot' = Absent ]_vars

C2_Witness ==
    /\ last.op = "hydrate" /\ last.path = "version"
    /\ store = EmptyStore /\ slot = Absent /\ pc = "running"

(* ------------------------------- C3 ----------------------------------- *)

\* C3: hydrating a slot that holds a snapshot of the current version stamped more
\* than 24 hours before now restores nothing and, the storage being accessible,
\* leaves the slot absent.
C3_ExpiredDiscarded ==
    [][ ( /\ HydrateStep
          /\ HoldsObject(slot)
          /\ slot.version = CACHE_SCHEMA_VERSION
          /\ now - slot.timestamp > 24 * 60 * 60 * 1000 )
        => /\ store' = EmptyStore
           /\ last'.path # "denied" => slot' = Absent ]_vars

C3_Witness ==
    /\ last.op = "hydrate" /\ last.path = "expired"
    /\ store = EmptyStore /\ slot = Absent /\ pc = "running"

(* ------------------------------- C4 ----------------------------------- *)

\* no entry of the snapshot in the slot has an excluded leading key segment
NoExcludedInSlot ==
    slot.kind = "object" =>
        \A i \in 1..Len(slot.queries) :
            slot.queries[i].queryKey[1]
                \notin {"zip-tasks", "posts", "accounts", "post-images"}

\* every entry of a snapshot just written was a Success entry of the store
WrittenFromSuccess ==
    (PersistStep /\ slot' # slot /\ slot'.kind = "object")
    => \A i \in 1..Len(slot'.queries) :
          LET k == slot'.queries[i].queryKey
          IN  k \in DOMAIN store /\ store[k].status = "success"

\* C4: starting from an empty slot, the snapshot in the slot never contains an entry
\* whose leading key segment is excluded, and a snapshot is only ever written from
\* entries that were Success when it was taken.
C4_SnapshotContent == []NoExcludedInSlot /\ [][WrittenFromSuccess]_vars

\* a snapshot was written from a store that also held an excluded Success entry
C4_Witness ==
    /\ last.op = "persist" /\ last.path = "written" /\ slot.kind = "object"
    /\ Len(slot.queries) = 1
    /\ \E k \in DOMAIN store :
          store[k].status = "success" /\ store[k].queryKey[1] \in EXCLUDED_QUERY_KEYS

(* ------------------------------- C5 ----------------------------------- *)

\* the selected queries serialize, to more than 2 MiB
SnapshotTooLarge ==
    /\ Selected # <<>>
    /\ \A i \in 1..Len(Selected) : ~Unserializable(Selected[i].data)
    /\ SerializedLength(Selected) > 2 * 1024 * 1024

\* C5: a run of persistQueryCache whose serialized snapshot exceeds the 2 MiB cap
\* leaves the slot exactly as it was and does not change the store.
C5_OversizeNotWritten ==
    [][ (PersistStep /\ SnapshotTooLarge) => (slot' = slot /\ store' = store) ]_vars

\* an oversized snapshot was skipped while the slot held an earlier snapshot
C5_Witness ==
    /\ last.op = "persist" /\ last.path = "oversize"
    /\ slot.kind = "object"
    /\ \E k \in DOMAIN store : store[k].status = "success" /\ store[k].data = "big"

(* ------------------------------- C6 ----------------------------------- *)

\* C6: persistQueryCache and hydrateQueryCache never throw to their caller, so
\* createQueryClient and the callbacks always complete normally.
C6_NeverThrows ==
    /\ last.op \in {"hydrate", "persist"} => ~last.threw
    /\ pc # "failed"

(* ------------------------------- C7 ----------------------------------- *)

\* C7: when setItem fails with QuotaExceededError, the slot is absent after the
\* call, the store is unchanged and the call returns normally.
C7_QuotaClearsSlot ==
    [][ (PersistStep /\ last'.path = "quota")
        => (slot' = Absent /\ store' = store /\ ~last'.threw) ]_vars

C7_Witness ==
    /\ last.op = "persist" /\ last.path = "quota" /\ ~last.threw
    /\ slot = Absent
    /\ persistableQueries(store) # <<>>

(* ------------------------------- C8 ----------------------------------- *)

\* one of the selected queries cannot be serialized
SnapshotUnserializable ==
    \E i \in 1..Len(Selected) : Unserializable(Selected[i].data)

\* C8 as stated: a serialization error clears the slot, as a quota failure does.
C8_SerializationClearsSlot ==
    [][ (PersistStep /\ SnapshotUnserializable) => slot' = Absent ]_vars

\* C8 amended: a serialization error is caught (the call returns normally), and
\* the slot and the store are left exactly as they were; the slot is not cleared.
C8_SerializationKeepsSlot ==
    [][ (PersistStep /\ SnapshotUnserializable)
        => (slot' = slot /\ store' = store /\ ~last'.threw) ]_vars

\* a serialization error happened while the slot held an earlier snapshot
C8_Witness ==
    /\ last.op = "persist" /\ last.path = "serializeError" /\ ~last.threw
    /\ slot.kind = "object"

(* ------------------------------- C9 ----------------------------------- *)

\* JSON.parse fails on the slot's content
Unparsable(sl) == sl.kind \in {"garbage", "empty"}

\* C9 as stated: an unparsable payload is deleted and the store left unchanged;
\* an absent slot changes nothing.  (The storage is accessible.)
C9_UnparsableDeleted ==
    [][ (HydrateStep /\ last'.path # "denied")
        => /\ Unparsable(slot) => (slot' = Absent /\ store' = EmptyStore)
           /\ slot = Absent => (slot' = slot /\ store' = EmptyStore) ]_vars

\* C9 amended: a non-empty unparsable payload is deleted and the store left
\* unchanged; an absent slot, and a slot holding the empty string, change nothing
\* (the empty string stays in the slot).
C9_NonEmptyUnparsableDeleted ==
    [][ (HydrateStep /\ last'.path # "denied")
        => /\ slot = Garbage => (slot' = Absent /\ store' = EmptyStore)
           /\ slot \in {Absent, EmptyString} => (slot' = slot /\ store' = EmptyStore) ]_vars

C9_Witness ==
    /\ last.op = "hydrate" /\ last.path = "parseError" /\ ~last.threw
    /\ slot = Absent /\ store = EmptyStore /\ pc = "running"

(* ------------------------------- C10 ---------------------------------- *)

\* a client in use has been hydrated exactly once
HydratedOnce == pc = "running" => hydrations = 1

\* a fetch is issued or settles, the cache is cleared, or a trigger persists
UsesClient ==
    \/ last'.op \in {"persist", "clear"} /\ last' # last
    \/ pc = "running" /\ pc' = "running" /\ store' # store

\* C10: a client is hydrated exactly once, before any fetch is issued on it and
\* before any persistence trigger runs, and never again while it lives.
C10_HydrateOnceFirst ==
    /\ []HydratedOnce
    /\ [][UsesClient => (hydrations = 1 /\ hydrations' = 1)]_vars
    /\ [][pc = "running" => hydrations' = hydrations]_vars

\* a trigger has persisted data fetched on a hydrated client
C10_Witness ==
    /\ pc = "running" /\ hydrations = 1
    /\ last.op = "persist" /\ last.path = "written"
    /\ \E k \in DOMAIN store : store[k].status = "success" /\ store[k].dataUpdatedAt = now

(* ------------------------------ retry --------------------------------- *)
(* createQueryClient configures the client's retryer: the retry callback   *)
(* and retryDelay for queries, the number 1 for mutations.  The retryer    *)
(* calls the function, and on each rejection asks retry(failureCount,      *)
(* error) with the number of failures BEFORE this one, waits               *)
(* retryDelay(failureCount) and calls the function again, or rejects.      *)

\* what a fetch function can reject with: an Error without a status, a thrown
\* string, and objects carrying a status
FetchErrors == {"network", "thrownString", "s399", "s400", "s404", "s499", "s500"}

\* error && typeof error === "object" && "status" in error
HasStatus(error) == error \in {"s399", "s400", "s404", "s499", "s500"}

StatusOf(error) ==
    CASE error = "s399" -> 399
      [] error = "s400" -> 400
      [] error = "s404" -> 404
      [] error = "s499" -> 499
      [] error = "s500" -> 500

\* a retry callback that does not look at the error
retryIgnoresStatus(failureCount, error) == failureCount < 3

\* a retry callback that gives up one failure earlier
retryGivesUpEarlier(failureCount, error) ==
    IF failureCount >= 2 THEN FALSE
    ELSE IF HasStatus(error) /\ StatusOf(error) >= 400 /\ StatusOf(error) < 500
    THEN FALSE
    ELSE TRUE

\* defaultOptions.queries.retry
retry(failureCount, error) ==
    IF failureCount >= 3 THEN FALSE
    ELSE IF HasStatus(error) /\ StatusOf(error) >= 400 /\ StatusOf(error) < 500
    THEN FALSE
    ELSE TRUE

Min(a, b) == IF a < b THEN a ELSE b

\* a delay that grows by one second per attempt
retryDelayLinear(attemptIndex) == Min(1000 * (attemptIndex + 1), 30000)

\* defaultOptions.queries.retryDelay
retryDelay(attemptIndex) == Min(1000 * 2 ^ attemptIndex, 30000)

\* mutations that use the queries' retry callback
mutationRetryClassified(failureCount, error) == retry(failureCount, error)

\* defaultOptions.mutations.retry is the number 1: the retryer retries while
\* failureCount < 1 and does not look at the error
mutationRetry(failureCount, error) == failureCount < 1

ShouldRetry(kind, failureCount, error) ==
    IF kind = "mutation" THEN mutationRetry(failureCount, error)
    ELSE retry(failureCount, error)

\* the first call of the function of a fetch or a mutation
StartRetryer(kind, r) ==
    [kind |-> kind, status |-> "fetching", failureCount |-> 0, calls |-> 1,
     error |-> "none", delay |-> 0, waiters |-> {r},
     seen |-> [q \in Requesters |-> "none"]]

\* a fetch that calls the fetch function again for every caller of the key
FetchInFlightRestarts(rt, r) ==
    [rt EXCEPT !.waiters = @ \cup {r}, !.calls = @ + 1]

\* prefetchQuery for a key whose fetch is in flight: the caller gets the promise of
\* the running retryer
FetchInFlight(rt, r) == [rt EXCEPT !.waiters = @ \cup {r}]

\* the retryer resolves or rejects its one promise: every caller sees the outcome
Settle(rt, status, error, outcome) ==
    [rt EXCEPT !.status = status, !.error = error,
               !.seen = [q \in Requesters |->
                            IF q \in rt.waiters THEN outcome ELSE @[q]]]

\* the function rejected with error
OnReject(rt, error) ==
    IF ShouldRetry(rt.kind, rt.failureCount, error)
    THEN [rt EXCEPT !.failureCount = @ + 1, !.calls = @ + 1, !.error = error,
                    !.delay = retryDelay(rt.failureCount)]
    ELSE Settle(rt, "error", error, error)

Did(op, path) == [op |-> op, path |-> path, threw |-> FALSE]

\* a caller asks for the key through prefetchQuery
Request(r) ==
    /\ ~(retryer.kind = "mutation" /\ retryer.status = "fetching")
    /\ IF retryer.kind = "query" /\ retryer.status = "fetching"
       THEN /\ r \notin retryer.waiters
            /\ retryer' = FetchInFlight(retryer, r)
            /\ last' = Did("request", "inFlight")
       ELSE /\ retryer' = StartRetryer("query", r)
            /\ last' = Did("request", "started")
    /\ UNCHANGED <<store, slot, now, pc, hydrations, cache, built>>

\* a caller runs a mutation
Mutate(r) ==
    /\ retryer.status # "fetching"
    /\ retryer' = StartRetryer("mutation", r)
    /\ last' = Did("mutate", "started")
    /\ UNCHANGED <<store, slot, now, pc, hydrations, cache, built>>

\* the function in flight resolves
Resolve ==
    /\ retryer.status = "fetching"
    /\ retryer' = Settle(retryer, "success", "none", "data")
    /\ last' = Did("resolve", "none")
    /\ UNCHANGED <<store, slot, now, pc, hydrations, cache, built>>

\* the function in flight rejects
Reject(error) ==
    /\ retryer.status = "fetching"
    /\ retryer' = OnReject(retryer, error)
    /\ last' = Did("reject", "none")
    /\ UNCHANGED <<store, slot, now, pc, hydrations, cache, built>>

InitRetry ==
    /\ store = EmptyStore
    /\ slot = Absent
    /\ now = HalfDay
    /\ pc = "running"
    /\ hydrations = 1
    /\ last = Did("create", "none")
    /\ QueryIdle

NextRetry ==
    \/ \E r \in Requesters : Request(r)
    \/ \E r \in Requesters : Mutate(r)
    \/ Resolve
    \/ \E error \in FetchErrors : Reject(error)

SpecRetry == InitRetry /\ [][NextRetry]_vars

\* the step is a rejection of the function of a query / of a mutation
RejectStep(kind) ==
    /\ retryer.status = "fetching"
    /\ retryer.kind = kind
    /\ last'.op = "reject"
    /\ retryer' # retryer

\* the rejection was followed by another call of the function
Retried == retryer'.status = "fetching" /\ retryer'.calls = retryer.calls + 1
\* the rejection ended the fetch: the error is surfaced, the function is not called
NotRetried == retryer'.status = "error" /\ retryer'.calls = retryer.calls

\* the status the claim speaks of: 400..499
Status4xx(error) == error \in {"s400", "s404", "s499"}

(* ------------------------------- C11 ---------------------------------- *)
\* C11: a fetch that rejects with a status in 400..499 is never retried, whatever the
\* failure count; a fetch that rejects with no status or with a status outside
\* 400..499 is retried while fewer than three failures came before it.
C11_ClientErrorsNotRetried ==
    [][ RejectStep("query") =>
          /\ Status4xx(retryer'.error) => NotRetried
          /\ (~Status4xx(retryer'.error) /\ retryer.failureCount < 3) => Retried ]_vars

\* a 404 on the third attempt ended a fetch whose first two attempts failed on the network
C11_Witness ==
    /\ retryer.kind = "query"
    /\ retryer.status = "error"
    /\ retryer.error = "s404"
    /\ retryer.failureCount = 2
    /\ retryer.calls = 3

(* ------------------------------- C12 ---------------------------------- *)
\* the fetch of a query ended in error on an error the policy retries
ExhaustedRetries ==
    /\ retryer.kind = "query"
    /\ retryer.status = "error"
    /\ ~Status4xx(retryer.error)

\* C12 as stated: the fetch function of a query is invoked at most 3 times in total,
\* the first attempt included, before the error is surfaced.
C12_AtMostThreeCalls == retryer.kind = "query" => retryer.calls <= 3

\* the retry loop is bounded: no fetch makes more than 4 calls or counts more than 3
\* failures, and every rejection either ends the fetch or uses up one retry
BoundedRetries ==
    retryer.kind = "query" => (retryer.calls <= 4 /\ retryer.failureCount <= 3)

\* C12, amended: the fetch function of a query is invoked at most 4 times in total (the
\* first attempt and at most 3 retries); a fetch that keeps failing on retryable errors
\* is surfaced as an error after exactly 4 calls, and every rejection either ends the
\* fetch or uses up one of the 3 retries, so the retry loop terminates.
C12_AtMostFourCalls ==
    /\ [](BoundedRetries /\ (ExhaustedRetries => retryer.calls = 4))
    /\ [][ RejectStep("query") =>
             \/ NotRetried
             \/ Retried /\ retryer'.failureCount = retryer.failureCount + 1 ]_vars

\* a fetch that failed four times on the network has been surfaced as an error
C12_Witness ==
    /\ ExhaustedRetries
    /\ retryer.error = "network"
    /\ retryer.calls = 4
    /\ retryer.failureCount = 3
    /\ \E r \in retryer.waiters : retryer.seen[r] = "network"

(* ------------------------------- C13 ---------------------------------- *)
\* the delays the claim lists for the retries 0, 1, 2
ClaimedDelay(n) == CASE n = 0 -> 1000 [] n = 1 -> 2000 [] n = 2 -> 4000

\* retryDelay over the attempt indexes 0 .. MaxAttemptIndex: never above 30 s,
\* never decreasing, and the doubling of one second until the cap
DelaySchedule ==
    \A n \in 0..MaxAttemptIndex :
        /\ retryDelay(n) <= 30000
        /\ retryDelay(n) = (IF 1000 * 2 ^ n <= 30000 THEN 1000 * 2 ^ n ELSE 30000)
        /\ n < 3 => retryDelay(n) = ClaimedDelay(n)
        /\ \A m \in 0..n : retryDelay(m) <= retryDelay(n)

\* C13: the delay before retry n (n = 0 for the first retry) is min(1000 * 2^n, 30000)
\* ms, that is 1000, 2000 and 4000 ms for the three retries of a query; the delay never
\* decreases from one retry to the next and never exceeds 30000 ms.
C13_RetryDelay ==
    /\ []DelaySchedule
    /\ [][ (RejectStep("query") /\ Retried) =>
             /\ retryer'.delay = ClaimedDelay(retryer.failureCount)
             /\ retryer'.delay >= retryer.delay
             /\ retryer'.delay <= 30000 ]_vars

\* the third retry of a fetch is under way after a wait of 4000 ms
C13_Witness ==
    /\ retryer.kind = "query"
    /\ retryer.status = "fetching"
    /\ retryer.failureCount = 3
    /\ retryer.calls = 4
    /\ retryer.delay = 4000

(* ------------------------------- C14 ---------------------------------- *)
\* a mutation is retried at most once: its function is called at most twice
AtMostOneRetry == retryer.kind = "mutation" => retryer.calls <= 2

\* C14 as stated: a mutation is retried at most once and follows the classification of
\* queries: rejected with a status in 400..499 it is not retried at all.
C14_MutationClassified ==
    /\ []AtMostOneRetry
    /\ [][ RejectStep("mutation") =>
             /\ Status4xx(retryer'.error) => NotRetried
             /\ (~Status4xx(retryer'.error) /\ retryer.failureCount < 1) => Retried ]_vars

\* C14, amended: a mutation is retried at most once, and whatever the error: its first
\* rejection is retried, a status in 400..499 included, and its second is surfaced.
C14_MutationRetriedOnce ==
    /\ []AtMostOneRetry
    /\ [][ RejectStep("mutation") =>
             IF retryer.failureCount < 1 THEN Retried ELSE NotRetried ]_vars

\* a mutation rejected twice with 404 was called twice before its error was surfaced
C14_Witness ==
    /\ retryer.kind = "mutation"
    /\ retryer.status = "error"
    /\ retryer.error = "s404"
    /\ retryer.calls = 2
    /\ retryer.failureCount = 1

(* ------------------------------- C16 ---------------------------------- *)
\* the step is a request for the key while its fetch is in flight
RequestInFlight ==
    /\ retryer.kind = "query"
    /\ retryer.status = "fetching"
    /\ last'.op = "request"
    /\ retryer' # retryer

\* what the callers of a settled fetch have seen
Outcome16 == IF retryer.status = "success" THEN "data" ELSE retryer.error

\* every caller of the fetch has seen its outcome, the same for all
SameOutcome ==
    (retryer.kind = "query" /\ retryer.status \in {"success", "error"}) =>
        \A r \in retryer.waiters : retryer.seen[r] = Outcome16

\* the fetch function is called once when the fetch starts and once more per retry,
\* however many callers wait: once in all while no attempt has failed
OneCallPerAttempt ==
    retryer.kind = "query" =>
        /\ retryer.calls = retryer.failureCount + 1
        /\ retryer.failureCount = 0 => retryer.calls = 1

\* C16: requests for a key made while its fetch is pending do not call the fetch
\* function again: the function is called exactly once for all of them (and once more
\* only for each retry of the retry policy); the later request neither cancels nor
\* restarts the fetch (its callers, failure count and calls stay), and all callers
\* see the same result or the same error.
C16_SingleFlight ==
    /\ [](OneCallPerAttempt /\ SameOutcome)
    /\ [][ RequestInFlight =>
             /\ retryer'.calls = retryer.calls
             /\ retryer'.failureCount = retryer.failureCount
             /\ retryer'.status = "fetching"
             /\ retryer.waiters \subseteq retryer'.waiters
             /\ Cardinality(retryer'.waiters) = Cardinality(retryer.waiters) + 1 ]_vars

\* every caller asked for the key while its fetch was pending; the function was called
\* once and all of them saw its data
C16_Witness ==
    /\ retryer.kind = "query"
    /\ retryer.status = "success"
    /\ retryer.waiters = Requesters
    /\ Cardinality(retryer.waiters) >= 2
    /\ retryer.calls = 1
    /\ \A r \in Requesters : retryer.seen[r] = "data"

(* ------------------------ prefetch and invalidate --------------------- *)
(* prefetchQuery and invalidateQueries pass their arguments to the client. *)
(* The client merges the options of a call over its defaults property by   *)
(* property, fetches when the query is stale by the merged staleTime (0    *)
(* when that is undefined) or invalidated or without data, and marks as    *)
(* invalidated every query whose key starts with the given key.            *)

\* defaultOptions.queries.staleTime
staleTime == 5 * 60 * 1000

\* CACHE_TIMES.TASKS.staleTime
TasksStaleTime == 1 * 60 * 1000

\* the clock of this part: steps of half the default staleTime
QueryClockAt(i) == HalfDay + (i - 1) * (staleTime \div 2)

\* the keys callers prefetch, and the keys they invalidate
PrefetchKeys == { <<"tasks", "list">>, <<"tasks", "detail", "t1">> }
InvalidateKeys == { <<"tasks">>, <<"tasks", "list">>, <<"tasks", "detail">>, <<"stats">> }

\* the `options` argument of prefetchQuery: left out, or { staleTime: n }
NoOptions == [given |-> FALSE, staleTime |-> 0]
PrefetchOptions ==
    {NoOptions, [given |-> TRUE, staleTime |-> staleTime],
     [given |-> TRUE, staleTime |-> TasksStaleTime]}

\* the query the cache builds for a key it does not hold
BuildQuery ==
    [status |-> "pending", data |-> "undefined", dataUpdatedAt |-> 0,
     isInvalidated |-> FALSE, fetchStatus |-> "idle"]

\* the staleTime the client uses for a call of prefetchQuery: the helper always passes
\* the property `staleTime: options?.staleTime`, which replaces the client's default
\* in the merge even when its value is undefined, and undefined counts as 0
MergedStaleTime(options) == IF options.given THEN options.staleTime ELSE 0

\* query.isStaleByTime(staleTime)
isStaleByTime(q, st, t) ==
    \/ q.isInvalidated
    \/ q.data = "undefined"
    \/ t - q.dataUpdatedAt >= st

\* fresh under the client's default staleTime
FreshByDefault(q, t) ==
    /\ q.status = "success"
    /\ ~q.isInvalidated
    /\ t - q.dataUpdatedAt < 5 * 60 * 1000

\* the partial key match of the client's query filters
partialMatchKeyExact(queryKey, prefix) == queryKey = prefix

partialMatchKey(queryKey, prefix) ==
    /\ Len(prefix) <= Len(queryKey)
    /\ \A i \in 1..Len(prefix) : queryKey[i] = prefix[i]

\* queryClient.invalidateQueries({ queryKey }) with no query observed by a component
MarkInvalidated(c, queryKey) ==
    [k \in DOMAIN c |->
        IF partialMatchKey(k, queryKey) THEN [c[k] EXCEPT !.isInvalidated = TRUE]
        ELSE c[k]]

DidOn(op, path, key, options) ==
    [op |-> op, path |-> path, threw |-> FALSE, key |-> key, options |-> options]

\* prefetchQuery(queryClient, queryKey, queryFn, options)
PrefetchQuery(k, options) ==
    LET q == IF HasKey(cache, k) THEN cache[k] ELSE BuildQuery
    IN  /\ IF ~isStaleByTime(q, MergedStaleTime(options), now)
           THEN /\ cache' = Put(cache, k, q)
                /\ last' = DidOn("prefetch", "cached", k, options)
           ELSE IF q.fetchStatus = "fetching"
           THEN /\ cache' = Put(cache, k, q)
                /\ last' = DidOn("prefetch", "inFlight", k, options)
           ELSE /\ cache' = Put(cache, k, [q EXCEPT !.fetchStatus = "fetching"])
                /\ last' = DidOn("prefetch", "fetch", k, options)
        /\ UNCHANGED <<store, slot, now, pc, hydrations, retryer, built>>

\* the fetch of a key resolves: new data, stamped now, no longer invalidated
QueryResolve(k) ==
    /\ HasKey(cache, k)
    /\ cache[k].fetchStatus = "fetching"
    /\ cache' = Put(cache, k,
                    [status |-> "success", data |-> "ok", dataUpdatedAt |-> now,
                     isInvalidated |-> FALSE, fetchStatus |-> "idle"])
    /\ last' = DidOn("resolve", "none", k, NoOptions)
    /\ UNCHANGED <<store, slot, now, pc, hydrations, retryer, built>>

\* the fetch of a key fails for good: data fetched earlier is kept
QueryReject(k) ==
    /\ HasKey(cache, k)
    /\ cache[k].fetchStatus = "fetching"
    /\ cache' = [cache EXCEPT ![k].status = "error", ![k].fetchStatus = "idle"]
    /\ last' = DidOn("reject", "none", k, NoOptions)
    /\ UNCHANGED <<store, slot, now, pc, hydrations, retryer, built>>

\* invalidateQueries(queryClient, queryKey)
InvalidateQueries(queryKey) ==
    /\ cache' = MarkInvalidated(cache, queryKey)
    /\ last' = DidOn("invalidate", "none", queryKey, NoOptions)
    /\ UNCHANGED <<store, slot, now, pc, hydrations, retryer, built>>

\* time passes
Elapse ==
    /\ \E i \in 1..(MaxTicks - 1) : now = QueryClockAt(i) /\ now' = QueryClockAt(i + 1)
    /\ UNCHANGED <<store, slot, pc, hydrations, last, cache, retryer, built>>

InitQuery ==
    /\ store = EmptyStore
    /\ slot = Absent
    /\ now = QueryClockAt(1)
    /\ pc = "running"
    /\ hydrations = 1
    /\ last = Did("create", "none")
    /\ QueryIdle

NextQuery ==
    \/ \E k \in PrefetchKeys, options \in PrefetchOptions : PrefetchQuery(k, options)
    \/ \E k \in PrefetchKeys : QueryResolve(k)
    \/ \E k \in PrefetchKeys : QueryReject(k)
    \/ \E queryKey \in InvalidateKeys : InvalidateQueries(queryKey)
    \/ Elapse

SpecQuery == InitQuery /\ [][NextQuery]_vars

\* the step is a call of prefetchQuery for key k
PrefetchStep(k) ==
    /\ last'.op = "prefetch"
    /\ last'.key = k
    /\ now' = now
    /\ (last' # last \/ cache' # cache)

\* the step calls the fetch function of key k
InvokesQueryFn(k) ==
    /\ (HasKey(cache, k) => cache[k].fetchStatus = "idle")
    /\ cache'[k].fetchStatus = "fetching"

(* ------------------------------- C15 ---------------------------------- *)
\* C15: prefetchQuery called without a staleTime option on a key whose entry is Success
\* and fresh under the default staleTime (now - dataUpdatedAt < 5 minutes) does not
\* call queryFn; it calls queryFn only when the entry is absent or stale.
C15_PrefetchRespectsFreshness ==
    [][ \A k \in PrefetchKeys :
          (PrefetchStep(k) /\ ~last'.options.given) =>
             /\ (HasKey(cache, k) /\ FreshByDefault(cache[k], now)) => ~InvokesQueryFn(k)
             /\ InvokesQueryFn(k) => (~HasKey(cache, k) \/ ~FreshByDefault(cache[k], now))
      ]_vars

(* ------------------------------- C17 ---------------------------------- *)
\* the step is a call of invalidateQueries with key prefix
InvalidateStep(prefix) ==
    /\ last'.op = "invalidate"
    /\ last'.key = prefix
    /\ now' = now
    /\ (last' # last \/ cache' # cache)

\* prefix is a structural prefix of key k
HasPrefix(k, prefix) ==
    Len(prefix) <= Len(k) /\ SubSeq(k, 1, Len(prefix)) = prefix

\* what get returns for the entry
SameData(k) ==
    /\ cache'[k].data = cache[k].data
    /\ cache'[k].dataUpdatedAt = cache[k].dataUpdatedAt

\* invalidateQueries marks exactly the entries under the prefix and changes nothing else
MarksDescendants ==
    \A prefix \in InvalidateKeys :
        InvalidateStep(prefix) =>
            /\ DOMAIN cache' = DOMAIN cache
            /\ \A k \in DOMAIN cache :
                  IF HasPrefix(k, prefix)
                  THEN cache'[k].isInvalidated /\ SameData(k)
                       /\ cache'[k].status = cache[k].status
                  ELSE cache'[k] = cache[k]

\* prefetchQuery on a marked entry finds or starts a fetch and leaves the data, whatever
\* the staleTime option and however fresh the data
MarkedIsRefetched ==
    \A k \in PrefetchKeys :
        (PrefetchStep(k) /\ HasKey(cache, k) /\ cache[k].isInvalidated) =>
            /\ cache'[k].fetchStatus = "fetching"
            /\ cache'[k].isInvalidated
            /\ SameData(k)

\* the data of a marked entry changes, and its mark goes, only when a fetch of it resolves
DataUntilResolved ==
    \A k \in DOMAIN cache :
        (cache[k].isInvalidated /\ (~SameData(k) \/ ~cache'[k].isInvalidated)) =>
            /\ cache[k].fetchStatus = "fetching"
            /\ last'.op = "resolve"
            /\ last'.key = k

\* no prefetchQuery has run since the invalidation that produced the state: the mark
\* of the Success entries under its prefix is still there after the step
MarkAwaitsEnsure ==
    \A k \in DOMAIN cache :
        (/\ last.op = "invalidate"
         /\ HasPrefix(k, last.key)
         /\ cache[k].status = "success"
         /\ last'.op # "invalidate") =>
            cache'[k].isInvalidated

Str(s) == [t |-> "string", v |-> s, ref |-> 0]
Undefined == [t |-> "undefined", v |-> "undefined", ref |-> 0]
Obj(ref, content) == [t |-> "object", v |-> content, ref |-> ref]

\* arguments: ids, and filters left out or given as one of several equal objects
Ids == {Str("a"), Str("b")}
FilterContents == {"{}", "{withImages:true}"}
Filters == {Undefined} \cup {Obj(ref, c) : ref \in 1..MaxRefs, c \in FilterContents}

\* the builders of queryKeys and the arguments each takes
KeyCalls ==
    {[category |-> c, builder |-> "all", arg |-> Undefined] :
        c \in {"posts", "accounts", "tasks", "stats"}}
    \cup {[category |-> "posts", builder |-> "list", arg |-> f] : f \in Filters}
    \cup {[category |-> "posts", builder |-> b, arg |-> id] :
            b \in {"detail", "images", "byAccount"}, id \in Ids}
    \cup {[category |-> "accounts", builder |-> "list", arg |-> Undefined]}
    \cup {[category |-> "accounts", builder |-> b, arg |-> id] :
            b \in {"detail", "stats"}, id \in Ids}
    \cup {[category |-> "tasks", builder |-> "list", arg |-> Undefined]}
    \cup {[category |-> "tasks", builder |-> "detail", arg |-> id] : id \in Ids}
    \cup {[category |-> "stats", builder |-> b, arg |-> Undefined] :
            b \in {"overview", "accounts"}}

\* builders that append their argument to the key
TakesArgument(category, builder) ==
    \/ builder \in {"detail", "images", "byAccount"}
    \/ category = "posts" /\ builder = "list"
    \/ category = "accounts" /\ builder = "stats"

\* builders in which the images of posts have a category of their own
queryKeysImagesApart(category, builder, arg) ==
    IF builder = "all" THEN <<Str(category)>>
    ELSE IF builder = "images" THEN <<Str("post-images"), arg>>
    ELSE IF TakesArgument(category, builder)
    THEN <<Str(category)>> \o <<Str(builder), arg>>
    ELSE <<Str(category)>> \o <<Str(builder)>>

\* queryKeys[category].all and queryKeys[category][builder](arg)
queryKeys(category, builder, arg) ==
    IF builder = "all" THEN <<Str(category)>>
    ELSE IF TakesArgument(category, builder)
    THEN <<Str(category)>> \o <<Str(builder), arg>>
    ELSE <<Str(category)>> \o <<Str(builder)>>

\* what a call returned, next to the `all` key of its category
Built(call) ==
    [category |-> call.category, builder |-> call.builder, arg |-> call.arg,
     key |-> queryKeys(call.category, call.builder, call.arg),
     all |-> queryKeys(call.category, "all", Undefined)]

\* two builders are called
BuildKeys(a, b) ==
    /\ built' = <<Built(a), Built(b)>>
    /\ UNCHANGED <<store, slot, now, pc, hydrations, last, cache, retryer>>

InitKeys ==
    /\ store = EmptyStore
    /\ slot = Absent
    /\ now = HalfDay
    /\ pc = "running"
    /\ hydrations = 1
    /\ last = Did("create", "none")
    /\ QueryIdle

NextKeys == \E a \in KeyCalls, b \in KeyCalls : BuildKeys(a, b)

SpecKeys == InitKeys /\ [][NextKeys]_vars

(* ------------------------------- C18 ---------------------------------- *)
\* deep equality of two segments and of two keys: contents, not identities
SegEqual(x, y) == x.t = y.t /\ x.v = y.v
DeepEqual(k1, k2) ==
    Len(k1) = Len(k2) /\ \A i \in 1..Len(k1) : SegEqual(k1[i], k2[i])

\* p is a structural prefix of k
StructuralPrefix(p, k) ==
    Len(p) <= Len(k) /\ \A i \in 1..Len(p) : SegEqual(p[i], k[i])

\* C18: the key a builder returns has the `all` key of its category as structural
\* prefix, no key has the `all` key of another category as prefix, and two calls of the
\* same builder with deeply equal arguments return deeply equal keys.
C18_KeyHierarchy ==
    built # NoKeys =>
        /\ \A i \in 1..2 :
              /\ built[i].all = <<Str(built[i].category)>>
              /\ StructuralPrefix(built[i].all, built[i].key)
        /\ built[1].category # built[2].category =>
              /\ ~StructuralPrefix(built[1].all, built[2].key)
              /\ ~StructuralPrefix(built[2].all, built[1].key)
        /\ ( /\ built[1].category = built[2].category
             /\ built[1].builder = built[2].builder
             /\ SegEqual(built[1].arg, built[2].arg) ) =>
              DeepEqual(built[1].key, built[2].key)

\* posts.list was called with two distinct filter objects of the same content: the keys
\* are different arrays holding different objects, and deeply equal
C18_Witness ==
    /\ built # NoKeys
    /\ built[1].category = "posts"
    /\ built[1].builder = "list"
    /\ built[2].category = "posts"
    /\ built[2].builder = "list"
    /\ built[1].arg.t = "object"
    /\ built[1].arg.ref # built[2].arg.ref
    /\ built[1].key # built[2].key
    /\ DeepEqual(built[1].key, built[2].key)
    /\ StructuralPrefix(built[1].all, built[1].key)

(* ------------------------------- C19 ---------------------------------- *)
\* every entry the snapshot in the slot lists is in the new store (a slot that holds no
\* snapshot lists none)
AllApplied ==
    slot.kind = "object" =>
        \A i \in 1..Len(slot.queries) :
            /\ slot.queries[i] # NullElement
            /\ slot.queries[i].queryKey \in DOMAIN store'
            /\ store'[slot.queries[i].queryKey].data = slot.queries[i].data

\* C19: after hydrateQueryCache returns, either every entry of the stored snapshot has
\* been applied and the slot is kept, or the store is as before the call (the empty store
\* of the new client) and the slot is deleted; a snapshot with a malformed element never
\* leaves the store with only the entries that preceded it.
C19_AllOrNothing ==
    [][ (HydrateStep /\ last'.path # "denied") =>
          \/ AllApplied /\ slot' = slot
          \/ store' = EmptyStore /\ slot' = Absent ]_vars

(* ------------------------------- C20 ---------------------------------- *)
\* C20 as stated: every entry applied by hydrateQueryCache has
\* now - dataUpdatedAt <= 24 hours.
C20_NoEntryOlderThanDay ==
    [][ HydrateStep =>
          \A k \in DOMAIN store' : now - store'[k].dataUpdatedAt <= 24 * 60 * 60 * 1000
      ]_vars

\* C20, amended: hydrateQueryCache applies entries only from a snapshot of the current
\* version whose own timestamp (the moment of the last persist) is at most 24 hours
\* old, and each applied entry keeps the dataUpdatedAt the snapshot holds for it,
\* which may be older than 24 hours.
C20_SnapshotNotOlderThanDay ==
    [][ (HydrateStep /\ store' # EmptyStore) =>
          /\ slot.kind = "object"
          /\ slot.version = CACHE_SCHEMA_VERSION
          /\ now - slot.timestamp <= 24 * 60 * 60 * 1000
          /\ \A k \in DOMAIN store' :
                \E i \in 1..Len(slot.queries) :
                    /\ slot.queries[i].queryKey = k
                    /\ slot.queries[i].dataUpdatedAt = store'[k].dataUpdatedAt
                    /\ slot.queries[i].dataUpdatedAt <= slot.timestamp ]_vars

\* a snapshot written 24 hours ago has been restored with an entry fetched 36 hours ago
C20_Witness ==
    /\ last.op = "hydrate"
    /\ last.path = "restored"
    /\ pc = "running"
    /\ slot.kind = "object"
    /\ now - slot.timestamp <= 24 * 60 * 60 * 1000
    /\ \E k \in DOMAIN store : now - store[k].dataUpdatedAt > 24 * 60 * 60 * 1000


====
